---- MODULE Spec2Model ----
(***************************************************************************)
(* A model of pykeboola: the Table / Column entities with their structural *)
(* diff (tables.py), the parsing of remote column metadata (tables.py),    *)
(* and the request/response mapping of JobsClient, TablesClient and the    *)
(* Client facade (jobs.py, tables.py, client.py).                          *)
(*                                                                         *)
(* Python values are modelled as follows.  None is the distinguished       *)
(* string None, which no drawn input equals.  A dict with string keys is a *)
(* function whose domain is the set of keys.  A str that the code edits    *)
(* (a URL) is a sequence of tokens.                                        *)
(***************************************************************************)
EXTENDS Integers, Sequences, FiniteSets, TLC

VARIABLES
    mode,       \* which part of the library the behaviour exercises
    left,       \* self of Table.__sub__ / Column.__sub__
    right,      \* other of Table.__sub__ / Column.__sub__
    result,     \* left - right, once computed
    reverse,    \* right - left, once computed
    tresult,    \* the diff of the two one-column tables holding left and right
    arg_metadata,   \* column_metadata passed to Column.from_keboola
    arg_primary,    \* primary_columns passed to Column.from_keboola
    arg_columns,    \* columns passed to Column.from_keboola
    parsed,         \* what Column.from_keboola returned or raised

    base_url,       \* the base URL the Client was built from
    token,          \* the token the Client was built from
    client,         \* the Client, with its JobsClient and TablesClient
    local,          \* the caller's Table, passed to create_table and
                    \* update_table_metadata
    pc,             \* per thread: "idle", "waiting" (request sent), "done"
    call,           \* per thread: the operation invoked and its arguments
    requests,       \* per thread: the transport requests of the invocation
    response,       \* per thread: the transport's response
    outcome         \* per thread: what the invocation returned or raised

diffVars == <<left, right, result, reverse, tresult>>
parseVars == <<arg_metadata, arg_primary, arg_columns, parsed>>
configVars == <<base_url, token, client>>
threadVars == <<pc, call, requests, response, outcome>>
clientVars == <<configVars, local, threadVars>>
vars == <<mode, diffVars, parseVars, clientVars>>

None == "<None>"

\* not yet computed
Pending == [pending |-> TRUE]

EmptyDict == [k \in {} |-> None]

Range(s) == {s[i] : i \in DOMAIN s}

\* A value that may be None (an absent JSON key read with .get, an argument
\* left at its default) is the empty tuple for None and <<v>> for v.
Nothing == <<>>
Some(v) == <<v>>

\* Python truth of an optional list or dict: neither None nor empty
Truthy(opt) == opt # Nothing /\ DOMAIN opt[1] # {}

\* d.get(key): None when the key is absent
Get(d, key) == IF key \in DOMAIN d THEN Some(d[key]) ELSE Nothing

\* an optional value as the field of a dataclass
OrNone(opt) == IF opt = Nothing THEN None ELSE opt[1]

\* how a call ended: raised is None and value the result, or raised names the
\* exception
Returned(v) == [raised |-> None, value |-> v]
Raised(e) == [raised |-> e, value |-> None]

\* raise requests.HTTPError(...): the message is the prefix (its parts), the
\* response text and, where the code appends '\nBody: {values}', the request
\* body
HTTPError(prefix, err, body) ==
    [raised |-> "HTTPError", value |-> [prefix |-> prefix, err |-> err, body |-> body]]

-----------------------------------------------------------------------------
(* Bounds of the model.                                                    *)

\* how many column names the drawn columns use
NumNames == 2

\* most metadata entries a drawn column has
MaxMeta == 2

\* most trailing slashes a drawn base URL has
MaxSlashes == 2

-----------------------------------------------------------------------------
(* tables.py: the dataclasses.                                             *)

\* dataclasses.fields(Table): the fields in declaration order, with compare
TableFields ==
    << [name |-> "id",           compare |-> FALSE],
       [name |-> "name",         compare |-> TRUE],
       [name |-> "schema",       compare |-> TRUE],
       [name |-> "schema_id",    compare |-> FALSE],
       [name |-> "description",  compare |-> TRUE],
       [name |-> "row_cnt",      compare |-> FALSE],
       [name |-> "columns",      compare |-> TRUE],
       [name |-> "native_types", compare |-> FALSE] >>

\* the Column dataclass as the specification describes it: description and
\* length excluded from comparison
ColumnFieldsExcluding ==
    << [name |-> "name",        compare |-> TRUE],
       [name |-> "type",        compare |-> TRUE],
       [name |-> "description", compare |-> FALSE],
       [name |-> "primary",     compare |-> TRUE],
       [name |-> "length",      compare |-> FALSE] >>

\* dataclasses.fields(Column): no field sets compare, so all are compared
ColumnFields ==
    << [name |-> "name",        compare |-> TRUE],
       [name |-> "type",        compare |-> TRUE],
       [name |-> "description", compare |-> TRUE],
       [name |-> "primary",     compare |-> TRUE],
       [name |-> "length",      compare |-> TRUE] >>

Column(name, type, description, primary, length) ==
    [name |-> name, type |-> type, description |-> description,
     primary |-> primary, length |-> length]

Table(id, name, schema, schema_id, description, row_cnt, columns, native_types) ==
    [id |-> id, name |-> name, schema |-> schema, schema_id |-> schema_id,
     description |-> description, row_cnt |-> row_cnt, columns |-> columns,
     native_types |-> native_types]

\* Table.new_table
new_table(name, schema_id, columns) ==
    Table(None, name, None, schema_id, None, None, columns, None)

\* the names of the fields a diff compares
CompareNames(fs) == {fs[i].name : i \in {j \in DOMAIN fs : fs[j].compare}}

\* the loop shared by Column.__sub__ and the first stage of Table.__sub__
FieldDifferences(fs, self, other) ==
    [f \in {g \in CompareNames(fs) : self[g] # other[g]} |-> <<self[f], other[f]>>]

\* Column.__sub__
Column__sub__(self, other) == FieldDifferences(ColumnFields, self, other)

\* {column.name: column for column in columns}: a later column of the same
\* name replaces an earlier one
ColDict(columns) ==
    [n \in {columns[i].name : i \in DOMAIN columns} |->
        LET last == CHOOSE i \in DOMAIN columns :
                        /\ columns[i].name = n
                        /\ \A j \in DOMAIN columns : columns[j].name = n => j <= i
        IN  columns[last]]

\* An entry of col_dif is either a marker str or the dict of a Column diff;
\* the record says which: marker is "" for a dict.
Marked(m) == [marker |-> m, dif |-> EmptyDict]
Differs(d) == [marker |-> "", dif |-> d]

\* col_dif with the two markers exchanged
ColDifSwapped(self, other) ==
    LET self_col_dict  == ColDict(self.columns)
        other_col_dict == ColDict(other.columns)
        both    == {n \in DOMAIN self_col_dict :
                        /\ n \in DOMAIN other_col_dict
                        /\ DOMAIN Column__sub__(self_col_dict[n], other_col_dict[n]) # {}}
        lonly   == DOMAIN self_col_dict \ DOMAIN other_col_dict
        ronly   == DOMAIN other_col_dict \ DOMAIN self_col_dict
    IN  [n \in both \cup lonly \cup ronly |->
            IF n \in lonly THEN Marked("Right Only")
            ELSE IF n \in ronly THEN Marked("Left Only")
            ELSE Differs(Column__sub__(self_col_dict[n], other_col_dict[n]))]

\* col_dif without the loop over other_col_dict
ColDifLeftLoop(self, other) ==
    LET self_col_dict  == ColDict(self.columns)
        other_col_dict == ColDict(other.columns)
        both    == {n \in DOMAIN self_col_dict :
                        /\ n \in DOMAIN other_col_dict
                        /\ DOMAIN Column__sub__(self_col_dict[n], other_col_dict[n]) # {}}
        lonly   == DOMAIN self_col_dict \ DOMAIN other_col_dict
    IN  [n \in both \cup lonly |->
            IF n \in lonly THEN Marked("Left Only")
            ELSE Differs(Column__sub__(self_col_dict[n], other_col_dict[n]))]

\* col_dif of Table.__sub__
ColDif(self, other) ==
    LET self_col_dict  == ColDict(self.columns)
        other_col_dict == ColDict(other.columns)
        both    == {n \in DOMAIN self_col_dict :
                        /\ n \in DOMAIN other_col_dict
                        /\ DOMAIN Column__sub__(self_col_dict[n], other_col_dict[n]) # {}}
        lonly   == DOMAIN self_col_dict \ DOMAIN other_col_dict
        ronly   == DOMAIN other_col_dict \ DOMAIN self_col_dict
    IN  [n \in both \cup lonly \cup ronly |->
            IF n \in lonly THEN Marked("Left Only")
            ELSE IF n \in ronly THEN Marked("Right Only")
            ELSE Differs(Column__sub__(self_col_dict[n], other_col_dict[n]))]

\* Table.__sub__ without the else branch that pops 'columns'
Table__sub__NoPop(self, other) ==
    LET differences == FieldDifferences(TableFields, self, other)
    IN  IF "columns" \in DOMAIN differences
        THEN LET col_dif == ColDif(self, other)
             IN  [f \in DOMAIN differences |->
                     IF f = "columns" THEN col_dif ELSE differences[f]]
        ELSE differences

\* Table.__sub__
Table__sub__(self, other) ==
    LET differences == FieldDifferences(TableFields, self, other)
    IN  IF "columns" \in DOMAIN differences
        THEN LET col_dif == ColDif(self, other)
             IN  IF DOMAIN col_dif # {}
                 THEN [f \in DOMAIN differences |->
                          IF f = "columns" THEN col_dif ELSE differences[f]]
                 ELSE [f \in DOMAIN differences \ {"columns"} |-> differences[f]]
        ELSE differences

-----------------------------------------------------------------------------
(* Inputs of the diff.                                                     *)

NameOf == <<"a", "b", "c", "d">>
ColNames == {NameOf[i] : i \in 1..NumNames}
ColTypes == {None, "INTEGER"}
ColDescriptions == {None, "d"}
ColLengths == {None, "10"}

Columns ==
    {Column(n, t, d, p, l) : n \in ColNames, t \in ColTypes,
                             d \in ColDescriptions, p \in BOOLEAN, l \in ColLengths}

\* the columns drawn for tables of several columns: a plain INTEGER column,
\* the same with a description, and an untyped one
TableColumns ==
    {c \in Columns : /\ ~c.primary
                     /\ c.length = None
                     /\ (c.type = None => c.description = None)}

\* the data model keeps column names unique within a table
UniqueNames(columns) ==
    \A i, j \in DOMAIN columns : columns[i].name = columns[j].name => i = j

\* the lists of columns of the drawn tables: those of unique names and, since
\* a caller may build any list, the pairs of columns of one name
ColumnLists ==
    {cs \in UNION {[1..n -> TableColumns] : n \in 0..NumNames} : UniqueNames(cs)}
    \cup {p \in TableColumns \X TableColumns : p[1].name = p[2].name}

\* a table not yet created, the same table as the platform returns it, and
\* two remote tables that differ from it in the compared fields
Headers ==
    { new_table("t", "in.b", <<>>),
      Table("in.b.t", "t", None, "in.b", None, "5", <<>>, "True"),
      Table("in.b.t", "t", "b", "in.b", None, "5", <<>>, "True"),
      Table("in.b.u", "u", "b", "in.b", "x", "0", <<>>, "False") }

Tables == {[h EXCEPT !.columns = cols] : h \in Headers, cols \in ColumnLists}

\* the variables of a part of the library a behaviour does not exercise
IdleDiff ==
    /\ left = None /\ right = None
    /\ result = Pending /\ reverse = Pending /\ tresult = Pending

IdleParse ==
    /\ arg_metadata = Nothing /\ arg_primary = Nothing /\ arg_columns = Nothing
    /\ parsed = Pending

IdleClient ==
    /\ base_url = <<>> /\ token = None /\ client = None /\ local = None
    /\ pc = <<>> /\ call = <<>> /\ requests = <<>> /\ response = <<>> /\ outcome = <<>>

-----------------------------------------------------------------------------
(* Diffing two tables.                                                     *)

InitTableDiff ==
    /\ mode = "table"
    /\ left \in Tables
    /\ right \in Tables
    /\ result = Pending
    /\ reverse = Pending
    /\ tresult = Pending
    /\ IdleParse
    /\ IdleClient

\* a caller computes left - right and right - left
TableDiff ==
    /\ mode = "table"
    /\ result = Pending
    /\ result' = Table__sub__(left, right)
    /\ reverse' = Table__sub__(right, left)
    /\ UNCHANGED <<mode, left, right, tresult, parseVars, clientVars>>

NextTableDiff == TableDiff

SpecTableDiff == InitTableDiff /\ [][NextTableDiff]_vars

-----------------------------------------------------------------------------
(* Diffing two columns, alone and as the only column of two tables.        *)

InitColumnDiff ==
    /\ mode = "column"
    /\ left \in Columns
    /\ right \in Columns
    /\ result = Pending
    /\ reverse = Pending
    /\ tresult = Pending
    /\ IdleParse
    /\ IdleClient

\* a caller computes left - right and right - left
ColumnDiff ==
    /\ mode = "column"
    /\ result = Pending
    /\ result' = Column__sub__(left, right)
    /\ reverse' = Column__sub__(right, left)
    /\ UNCHANGED <<mode, left, right, tresult, parseVars, clientVars>>

\* a caller diffs two new tables that hold left and right as their only column
WrappedDiff ==
    /\ mode = "column"
    /\ tresult = Pending
    /\ tresult' = Table__sub__(new_table("t", "in.b", <<left>>),
                               new_table("t", "in.b", <<right>>))
    /\ UNCHANGED <<mode, left, right, result, reverse, parseVars, clientVars>>

NextColumnDiff == ColumnDiff \/ WrappedDiff

SpecColumnDiff == InitColumnDiff /\ [][NextColumnDiff]_vars

-----------------------------------------------------------------------------
(* tables.py: parsing remote column data.                                  *)

\* name in primary_columns
In(name, names) == \E i \in DOMAIN names : names[i] = name

\* next(iter(values), None)
FirstOrNone(values) == IF values = <<>> THEN None ELSE values[1]

\* [meta['value'] for meta in metadata if meta['key'] == key and
\*  meta['provider'] == provider]
StorageValues(metadata, key) ==
    LET hits == SelectSeq(metadata, LAMBDA meta :
                    meta.key = key /\ meta.provider = "storage")
    IN  [i \in DOMAIN hits |-> hits[i].value]

\* [meta['value'] for meta in metadata if meta['key'] == key]
KeyValues(metadata, key) ==
    LET hits == SelectSeq(metadata, LAMBDA meta : meta.key = key)
    IN  [i \in DOMAIN hits |-> hits[i].value]

TypeOf(metadata) == FirstOrNone(StorageValues(metadata, "KBC.datatype.basetype"))

LengthOf(metadata) == FirstOrNone(StorageValues(metadata, "KBC.datatype.length"))

\* the description read from the storage provider's entries only
DescriptionOfStorage(metadata) == FirstOrNone(StorageValues(metadata, "KBC.description"))

DescriptionOf(metadata) == FirstOrNone(KeyValues(metadata, "KBC.description"))

\* Column.from_keboola.  column_metadata, a dict in the order of its items, is
\* the sequence of its items [name, metadata]; `name in primary_columns` raises
\* TypeError when primary_columns is None.
Column_from_keboola(cm, pk, cl) ==
    IF Truthy(cm)
    THEN IF pk = Nothing THEN Raised("TypeError")
         ELSE Returned([i \in DOMAIN cm[1] |->
                  Column(cm[1][i].name,
                         TypeOf(cm[1][i].metadata),
                         DescriptionOf(cm[1][i].metadata),
                         In(cm[1][i].name, pk[1]),
                         LengthOf(cm[1][i].metadata))])
    ELSE IF Truthy(cl)
    THEN IF pk = Nothing THEN Raised("TypeError")
         ELSE Returned([i \in DOMAIN cl[1] |->
                  Column(cl[1][i], None, None, In(cl[1][i], pk[1]), None)])
    ELSE Returned(<<>>)

-----------------------------------------------------------------------------
(* Inputs of the parsing.                                                  *)

Meta(key, value, provider) == [key |-> key, value |-> value, provider |-> provider]

\* metadata entries: for each key the parser reads, entries of the storage
\* provider and of another one, and an entry of a key it does not read
MetaEntries ==
    { Meta("KBC.datatype.basetype", "INTEGER", "storage"),
      Meta("KBC.datatype.basetype", "STRING", "storage"),
      Meta("KBC.datatype.basetype", "NUMERIC", "user"),
      Meta("KBC.datatype.length", "10", "storage"),
      Meta("KBC.datatype.length", "20", "user"),
      Meta("KBC.description", "d1", "user"),
      Meta("KBC.description", "d2", "storage"),
      Meta("KBC.datatype.nullable", "1", "storage") }

MetaLists == UNION {[1..n -> MetaEntries] : n \in 0..MaxMeta}

\* the metadata of a column that is one of several: at most one entry
ShortMetaLists == {m \in MetaLists : Len(m) <= 1}

Item(name, metadata) == [name |-> name, metadata |-> metadata]

\* the lists of distinct names, in every order
NameLists ==
    {ns \in UNION {[1..n -> ColNames] : n \in 0..NumNames} :
        \A i, j \in DOMAIN ns : ns[i] = ns[j] => i = j}

\* non-empty columnMetadata objects: one column with any metadata, or several
\* columns with short metadata
MetadataDicts ==
    {<<Item(n, m)>> : n \in ColNames, m \in MetaLists}
    \cup UNION {{[i \in DOMAIN ns |-> Item(ns[i], ms[i])] :
                    ms \in [DOMAIN ns -> ShortMetaLists]} :
                ns \in {l \in NameLists : Len(l) >= 2}}

\* primaryKey: absent, or names in the order of NameOf
PrimaryKeys ==
    {Nothing} \cup {Some(ns) : ns \in {l \in NameLists :
        \A i, j \in DOMAIN l : i < j =>
            (CHOOSE a \in DOMAIN NameOf : NameOf[a] = l[i])
                < (CHOOSE b \in DOMAIN NameOf : NameOf[b] = l[j])}}

InitParse ==
    /\ mode = "parse"
    /\ \/ /\ arg_metadata \in {Some(d) : d \in MetadataDicts}
          /\ arg_columns \in {Nothing, Some(<<NameOf[1]>>)}
       \/ /\ arg_metadata \in {Nothing, Some(<<>>)}
          /\ arg_columns \in {Nothing} \cup {Some(ns) : ns \in NameLists}
    /\ arg_primary \in PrimaryKeys
    /\ parsed = Pending
    /\ IdleDiff
    /\ IdleClient

\* Column.from_keboola is called on the three inputs
Parse ==
    /\ mode = "parse"
    /\ parsed = Pending
    /\ parsed' = Column_from_keboola(arg_metadata, arg_primary, arg_columns)
    /\ UNCHANGED <<mode, diffVars, arg_metadata, arg_primary, arg_columns, clientVars>>

NextParse == Parse

SpecParse == InitParse /\ [][NextParse]_vars

-----------------------------------------------------------------------------
(* client.py, jobs.py, tables.py: construction.  A URL is the sequence of   *)
(* its tokens; "/" is always a token of its own and no other token holds a *)
(* "/" or a part of the word "connection".                                 *)

\* url.rstrip('/')
RECURSIVE rstrip(_)
rstrip(url) ==
    IF url # <<>> /\ url[Len(url)] = "/"
    THEN rstrip(SubSeq(url, 1, Len(url) - 1))
    ELSE url

\* url.replace(old, new), old a token
replace(url, old, new) == [i \in DOMAIN url |-> IF url[i] = old THEN new ELSE url[i]]

\* the literal '/v2/storage'
StoragePath == <<"/", "v2", "/", "storage">>

\* JobsClient.__init__ with storage_url built from the base URL as given
JobsClient__init__Unstripped(url, tok) ==
    [queue_url   |-> rstrip(replace(url, "connection", "queue")),
     storage_url |-> url \o StoragePath,
     token       |-> tok]

\* JobsClient.__init__
JobsClient__init__(url, tok) ==
    [queue_url   |-> rstrip(replace(url, "connection", "queue")),
     storage_url |-> rstrip(url) \o StoragePath,
     token       |-> tok]

\* TablesClient.__init__
TablesClient__init__(url, tok) ==
    [token   |-> tok,
     url     |-> rstrip(url) \o StoragePath,
     headers |-> [Content_Type |-> "application/json", X_StorageApi_Token |-> tok]]

\* Client.__init__
Client__init__(url, tok) ==
    [base_url |-> rstrip(url),
     token    |-> tok,
     jobs     |-> JobsClient__init__(url, tok),
     tables   |-> TablesClient__init__(url, tok)]

-----------------------------------------------------------------------------
(* jobs.py, tables.py: the request each operation sends.                   *)

\* a call of requests.get / requests.post / requests.delete; json is Nothing
\* when the call passes no json argument
Request(method, url, headers, json) ==
    [method |-> method, url |-> url, headers |-> headers, json |-> json]

\* an invocation: the operation and its arguments; the arguments another
\* operation takes are Nothing
Call(op) ==
    [op |-> op, component_id |-> Nothing, configuration_id |-> Nothing,
     variable_values |-> Nothing, branch_id |-> Nothing, job_id |-> Nothing,
     bucket |-> Nothing, table_id |-> Nothing, table |-> Nothing]

\* how an f-string renders a value
Format(v) == IF v = None THEN "None" ELSE v

\* `if variable_values:` for a dict that may be None
TruthyDict(opt) == Truthy(opt)

\* `if branch_id:` for an int that may be None
TruthyInt(opt) == opt # Nothing /\ opt[1] # 0

\* `if bucket:` / `if table.description:` for a str that may be None
TruthyStr(v) == v # None /\ v # ""

\* the body of queue_job
queue_job_body(c) ==
    LET keys == {"component", "config", "mode"}
                \cup (IF TruthyDict(c.variable_values) THEN {"variableValuesData"} ELSE {})
                \cup (IF TruthyInt(c.branch_id) THEN {"branchId"} ELSE {})
    IN  [k \in keys |->
            CASE k = "component" -> c.component_id[1]
              [] k = "config" -> c.configuration_id[1]
              [] k = "mode" -> "run"
              [] k = "variableValuesData" -> [values |-> c.variable_values[1]]
              [] k = "branchId" -> c.branch_id[1]]

TokenHeader(self) == [X_StorageApi_Token |-> self.token]

JsonHeaders(self) ==
    [Content_Type |-> "application/json", X_StorageApi_Token |-> self.token]

\* JobsClient.queue_job, up to requests.post
queue_job_request(self, c) ==
    Request("POST", self.queue_url \o <<"/", "jobs">>, TokenHeader(self),
            Some(queue_job_body(c)))

\* JobsClient.get_job, up to requests.get
get_job_request(self, c) ==
    Request("GET", self.queue_url \o <<"/", "jobs", "/", Format(c.job_id[1])>>,
            JsonHeaders(self), Nothing)

\* JobsClient.get_api_job, up to requests.get
get_api_job_request(self, c) ==
    Request("GET", self.storage_url \o <<"/", "jobs", "/", Format(c.job_id[1])>>,
            JsonHeaders(self), Nothing)

Include == "?include=columns,buckets,metadata,columnMetadata"

\* TablesClient.get_tables, up to requests.get
get_tables_request(self, c) ==
    Request("GET",
            IF TruthyStr(OrNone(c.bucket))
            THEN self.url \o <<"/", "buckets", "/", Format(c.bucket[1]), "/", "tables", Include>>
            ELSE self.url \o <<"/", "tables", Include>>,
            self.headers, Nothing)

\* Table.primary_keys
primary_keys(table) == SelectSeq(table.columns, LAMBDA column : column.primary)

\* values of create_table
create_table_values(table) ==
    [name |-> table.name,
     primaryKeysNames |-> [i \in DOMAIN primary_keys(table) |-> primary_keys(table)[i].name],
     columns |-> [i \in DOMAIN table.columns |->
                     [name |-> table.columns[i].name,
                      definition |-> [type |-> table.columns[i].type,
                                      length |-> table.columns[i].length]]]]

\* TablesClient.create_table, up to requests.post
create_table_request(self, c) ==
    Request("POST",
            self.url \o <<"/", "buckets", "/", Format(c.table[1].schema_id), "/",
                          "tables-definition">>,
            self.headers, Some(create_table_values(c.table[1])))

\* TablesClient.delete_table, up to requests.delete
delete_table_request(self, c) ==
    Request("DELETE",
            self.url \o <<"/", "tables", "/", Format(c.table_id[1]), "/", "?force=true">>,
            self.headers, Nothing)

\* values of update_table_metadata
update_table_metadata_values(table) ==
    LET keys == {"provider"}
                \cup (IF TruthyStr(table.description) THEN {"metadata"} ELSE {})
                \cup (IF table.columns # <<>> THEN {"columnsMetadata"} ELSE {})
        by_name == ColDict(table.columns)
    IN  [k \in keys |->
            CASE k = "provider" -> "user"
              [] k = "metadata" ->
                    <<[key |-> "KBC.description", value |-> table.description]>>
              [] k = "columnsMetadata" ->
                    [n \in DOMAIN by_name |->
                        <<[key |-> "KBC.description", value |-> by_name[n].description]>>]]

\* TablesClient.update_table_metadata, up to requests.post
update_table_metadata_request(self, c) ==
    Request("POST",
            self.url \o <<"/", "tables", "/", Format(c.table[1].id), "/", "metadata">>,
            self.headers, Some(update_table_metadata_values(c.table[1])))

\* the request an invocation on the Client's sub-clients sends;
\* check_job_status and check_api_job_status call get_job and get_api_job
RequestOf(cl, c) ==
    CASE c.op = "queue_job" -> queue_job_request(cl.jobs, c)
      [] c.op \in {"get_job", "check_job_status"} -> get_job_request(cl.jobs, c)
      [] c.op \in {"get_api_job", "check_api_job_status"} -> get_api_job_request(cl.jobs, c)
      [] c.op = "get_tables" -> get_tables_request(cl.tables, c)
      [] c.op = "create_table" -> create_table_request(cl.tables, c)
      [] c.op = "delete_table" -> delete_table_request(cl.tables, c)
      [] c.op = "update_table_metadata" -> update_table_metadata_request(cl.tables, c)

-----------------------------------------------------------------------------
(* jobs.py, tables.py: what each operation does with the response.  A      *)
(* response is [status_code, text, json]: json is Nothing when the text    *)
(* does not decode, and response.json() then raises.                       *)

\* response.json()
Json(r) == IF r.json = Nothing THEN Raised("JSONDecodeError") ELSE Returned(r.json[1])

\* o[key] on the result o of a call
Subscript(o, key) ==
    IF o.raised # None THEN o
    ELSE IF key \in DOMAIN o.value THEN Returned(o.value[key])
    ELSE Raised("KeyError")

\* Table.from_keboola
Table_from_keboola(keboola_json) ==
    IF ~({"id", "displayName", "bucket"} \subseteq DOMAIN keboola_json)
       \/ ~({"displayName", "id"} \subseteq DOMAIN keboola_json.bucket)
    THEN Raised("KeyError")
    ELSE LET metadata == IF Truthy(Get(keboola_json, "metadata"))
                         THEN keboola_json.metadata ELSE <<>>
             parsed_columns == Column_from_keboola(Get(keboola_json, "columnMetadata"),
                                                   Get(keboola_json, "primaryKey"),
                                                   Get(keboola_json, "columns"))
         IN  IF parsed_columns.raised # None THEN parsed_columns
             ELSE Returned(Table(keboola_json.id,
                                 keboola_json.displayName,
                                 keboola_json.bucket.displayName,
                                 keboola_json.bucket.id,
                                 FirstOrNone(KeyValues(metadata, "KBC.description")),
                                 OrNone(Get(keboola_json, "rowsCount")),
                                 parsed_columns.value,
                                 OrNone(Get(keboola_json, "isTyped"))))

\* [Table.from_keboola(table_json) for table_json in tables_json]: the first
\* exception ends the comprehension
TablesOf(tables_json) ==
    LET each == [i \in DOMAIN tables_json |-> Table_from_keboola(tables_json[i])]
        bad  == {i \in DOMAIN each : each[i].raised # None}
    IN  IF bad = {}
        THEN Returned([i \in DOMAIN each |-> each[i].value])
        ELSE each[CHOOSE i \in bad : \A j \in bad : i <= j]

\* JobsClient.queue_job, after requests.post
queue_job_result(c, r) ==
    IF r.status_code >= 400
    THEN HTTPError(<<"Failed to queue a job in Keboola. API Response: ">>, r.text, Nothing)
    ELSE Subscript(Json(r), "id")

\* JobsClient.get_job and JobsClient.get_api_job, after requests.get
get_job_result(c, r) ==
    IF r.status_code >= 400
    THEN HTTPError(<<"Failed to find a job in Keboola. API Response: ">>, r.text, Nothing)
    ELSE Json(r)

\* JobsClient.check_job_status and JobsClient.check_api_job_status
check_job_status_result(c, r) == Subscript(get_job_result(c, r), "status")

\* TablesClient.get_tables, after requests.get
get_tables_result(c, r) ==
    IF r.status_code = 200
    THEN IF Json(r).raised # None THEN Json(r) ELSE TablesOf(Json(r).value)
    ELSE HTTPError(<<"Failed to retrieve tables from Keboola: ">>, r.text, Nothing)

\* create_table accepting every status below 400
create_table_resultBelow400(c, r) ==
    IF r.status_code < 400
    THEN Subscript(Json(r), "id")
    ELSE HTTPError(<<"Failed to create table in Keboola: ">>, r.text,
                   Some(create_table_values(c.table[1])))

\* TablesClient.create_table, after requests.post
create_table_result(c, r) ==
    IF r.status_code = 202
    THEN Subscript(Json(r), "id")
    ELSE HTTPError(<<"Failed to create table in Keboola: ">>, r.text,
                   Some(create_table_values(c.table[1])))

\* TablesClient.delete_table, after requests.delete
delete_table_result(c, r) ==
    IF r.status_code = 204
    THEN Returned(TRUE)
    ELSE HTTPError(<<"Failed to delete table ", Format(c.table_id[1]), " in Keboola: ">>,
                   r.text, Nothing)

\* TablesClient.update_table_metadata, after requests.post
update_table_metadata_result(c, r) ==
    IF r.status_code = 201
    THEN Json(r)
    ELSE HTTPError(<<"Failed to add metadata to table in Keboola: ">>, r.text,
                   Some(update_table_metadata_values(c.table[1])))

\* what an invocation returns or raises on the response
ResultOf(c, r) ==
    CASE c.op = "queue_job" -> queue_job_result(c, r)
      [] c.op \in {"get_job", "get_api_job"} -> get_job_result(c, r)
      [] c.op \in {"check_job_status", "check_api_job_status"} -> check_job_status_result(c, r)
      [] c.op = "get_tables" -> get_tables_result(c, r)
      [] c.op = "create_table" -> create_table_result(c, r)
      [] c.op = "delete_table" -> delete_table_result(c, r)
      [] c.op = "update_table_metadata" -> update_table_metadata_result(c, r)

\* a handler that sends the request again on a server error
HandleRetrying(reqs, c, r) ==
    IF r.status_code >= 500 /\ Len(reqs) < 2
    THEN [pc |-> "waiting", requests |-> Append(reqs, reqs[1]), outcome |-> Pending]
    ELSE [pc |-> "done", requests |-> reqs, outcome |-> ResultOf(c, r)]

\* the rest of a handler once the transport has answered: it returns or
\* raises, and sends nothing more
Handle(reqs, c, r) ==
    [pc |-> "done", requests |-> reqs, outcome |-> ResultOf(c, r)]

\* create_table storing the id of the created table on the Table passed
TableAfterStoringId(table, c, o) ==
    IF c.op = "create_table" /\ o.raised = None
    THEN [table EXCEPT !.id = o.value]
    ELSE table

\* the caller's Table after a handler ran: no handler assigns to an attribute
\* of the Table it is passed
TableAfter(table, c, o) == table

-----------------------------------------------------------------------------
(* Inputs of the client operations.                                        *)

\* the URL of the tests, one that holds the word connection twice, and one
\* that does not hold it
Hosts ==
    { <<"https:", "/", "/", "connection", ".eu-central-1.keboola.com">>,
      <<"https:", "/", "/", "connection", ".keboola.com", "/", "connection">>,
      <<"https:", "/", "/", "api.keboola.com">> }

BaseUrls == {h \o [i \in 1..n |-> "/"] : h \in Hosts, n \in 0..MaxSlashes}

Tokens == {"secret"}

\* the caller's tables: a new table with a primary key and a typed column, a
\* new table without schema_id and columns, a remote table with two primary
\* keys and descriptions, and a remote table with an empty description
LocalTables ==
    { new_table("t", "in.b", <<Column("id", "INTEGER", None, TRUE, None),
                               Column("v", "STRING", "value", FALSE, "255")>>),
      new_table("t", None, <<>>),
      Table("in.b.t", "t", "b", "in.b", "about t", "5",
            <<Column("v", "STRING", None, FALSE, "255"),
              Column("id", "INTEGER", "key", TRUE, None),
              Column("part", "INTEGER", None, TRUE, None)>>, "True"),
      Table("in.b.u", "u", "b", "in.b", "", None,
            <<Column("a", None, None, FALSE, None)>>, None) }

JobIds == {"676625356"}

QueueJobCalls ==
    {[Call("queue_job") EXCEPT !.component_id = Some("keboola.snowflake-transformation"),
                               !.configuration_id = Some(1),
                               !.variable_values = vv,
                               !.branch_id = b] :
        vv \in {Nothing, Some(EmptyDict), Some([date |-> "2024-01-01"])},
        b \in {Nothing, Some(0), Some(7)}}

JobCalls(op) == {[Call(op) EXCEPT !.job_id = Some(j)] : j \in JobIds}

GetTablesCalls ==
    {[Call("get_tables") EXCEPT !.bucket = b] : b \in {Nothing, Some(""), Some("in.b")}}

TableCalls(op, table) == {[Call(op) EXCEPT !.table = Some(table)]}

DeleteTableCalls == {[Call("delete_table") EXCEPT !.table_id = Some("in.b.t")]}

\* with two threads each operation is drawn with one choice of arguments
CallsOf(m, op, table) ==
    CASE op = "queue_job" ->
            IF m = "client" THEN QueueJobCalls
            ELSE {c \in QueueJobCalls : c.branch_id = Some(7) /\ TruthyDict(c.variable_values)}
      [] op \in {"get_job", "check_job_status", "get_api_job", "check_api_job_status"} ->
            JobCalls(op)
      [] op = "get_tables" ->
            IF m = "client" THEN GetTablesCalls
            ELSE {c \in GetTablesCalls : c.bucket = Some("in.b")}
      [] op \in {"create_table", "update_table_metadata"} -> TableCalls(op, table)
      [] op = "delete_table" -> DeleteTableCalls

StatusCodes == {200, 201, 202, 204, 302, 399, 400, 404, 500}

Body(text, json) == [text |-> text, json |-> json]

NotFound == Body("not found", Nothing)

JobBodies ==
    { NotFound,
      Body("{}", Some(EmptyDict)),
      Body("{\"id\": \"676625356\", \"status\": \"success\"}",
           Some([id |-> "676625356", status |-> "success"])) }

CreatedBodies ==
    { NotFound,
      Body("{}", Some(EmptyDict)),
      Body("{\"id\": 42}", Some([id |-> "42"])) }

DeletedBodies == { NotFound, Body("", Nothing) }

UpdatedBodies ==
    { NotFound,
      Body("{\"metadata\": []}", Some([metadata |-> <<>>])) }

\* a table as the platform lists it, with metadata
RemoteT ==
    [id |-> "in.b.t", displayName |-> "t",
     bucket |-> [id |-> "in.b", displayName |-> "b"],
     metadata |-> <<Meta("KBC.name", "t", "storage"),
                    Meta("KBC.description", "about t", "user"),
                    Meta("KBC.description", "older", "user")>>,
     rowsCount |-> "5",
     columnMetadata |-> <<Item("id", <<Meta("KBC.datatype.basetype", "INTEGER", "storage")>>),
                          Item("v", <<Meta("KBC.description", "value", "user")>>)>>,
     primaryKey |-> <<"id">>,
     columns |-> <<"id", "v">>,
     isTyped |-> "True"]

\* a table listed without metadata
RemoteU ==
    [id |-> "in.b.u", displayName |-> "u",
     bucket |-> [id |-> "in.b", displayName |-> "b"],
     primaryKey |-> <<>>,
     columns |-> <<"a">>]

\* a listing that lacks displayName, and one that lacks primaryKey
RemoteUnnamed == [id |-> "in.b.x", bucket |-> [id |-> "in.b", displayName |-> "b"]]
RemoteKeyless ==
    [id |-> "in.b.y", displayName |-> "y",
     bucket |-> [id |-> "in.b", displayName |-> "b"],
     columns |-> <<"a">>]

ListedBodies ==
    { NotFound,
      Body("[]", Some(<<>>)),
      Body("[t]", Some(<<RemoteT>>)),
      Body("[u, t]", Some(<<RemoteU, RemoteT>>)),
      Body("[t, unnamed]", Some(<<RemoteT, RemoteUnnamed>>)),
      Body("[keyless]", Some(<<RemoteKeyless>>)) }

BodiesOf(op) ==
    CASE op \in {"queue_job", "get_job", "check_job_status", "get_api_job",
                 "check_api_job_status"} -> JobBodies
      [] op = "get_tables" -> ListedBodies
      [] op = "create_table" -> CreatedBodies
      [] op = "delete_table" -> DeletedBodies
      [] op = "update_table_metadata" -> UpdatedBodies

Response(status_code, body) ==
    [status_code |-> status_code, text |-> body.text, json |-> body.json]

\* with two threads the transport answers the expected status with a body of
\* the expected shape, or 404
ResponsesOf(m, op) ==
    IF m = "client"
    THEN {Response(s, b) : s \in StatusCodes, b \in BodiesOf(op)}
    ELSE {r \in {Response(s, b) : s \in StatusCodes, b \in BodiesOf(op)} :
              \/ r.status_code = 404 /\ r.text = NotFound.text
              \/ r.text \in {"{\"id\": \"676625356\", \"status\": \"success\"}",
                             "{\"id\": 42}", "", "{\"metadata\": []}", "[u, t]"}
                 /\ r.status_code =
                        (CASE op = "get_tables" -> 200
                           [] op = "create_table" -> 202
                           [] op = "delete_table" -> 204
                           [] op = "update_table_metadata" -> 201
                           [] OTHER -> 200)}

-----------------------------------------------------------------------------
(* Calling the client: an invocation sends its request, the transport       *)
(* answers, the handler returns or raises, the caller goes on.             *)

\* the callers a behaviour may have; DOMAIN pc are those it has
ThreadIds == {1, 2}

InitCalls(threads) ==
    /\ base_url \in BaseUrls
    /\ token \in Tokens
    /\ client = Client__init__(base_url, token)
    /\ local \in LocalTables
    /\ pc = [t \in threads |-> "idle"]
    /\ call = [t \in threads |-> Pending]
    /\ requests = [t \in threads |-> <<>>]
    /\ response = [t \in threads |-> Pending]
    /\ outcome = [t \in threads |-> Pending]
    /\ IdleDiff
    /\ IdleParse

\* thread t invokes op: the handler builds the request and sends it
Invoke(t, op) ==
    /\ mode \in {"client", "threads"}
    /\ t \in DOMAIN pc
    /\ pc[t] = "idle"
    /\ \E c \in CallsOf(mode, op, local) :
          /\ call' = [call EXCEPT ![t] = c]
          /\ requests' = [requests EXCEPT ![t] = <<RequestOf(client, c)>>]
    /\ pc' = [pc EXCEPT ![t] = "waiting"]
    /\ UNCHANGED <<mode, diffVars, parseVars, configVars, local, response, outcome>>

QueueJob(t) == Invoke(t, "queue_job")
GetJob(t) == Invoke(t, "get_job")
CheckJobStatus(t) == Invoke(t, "check_job_status")
GetApiJob(t) == Invoke(t, "get_api_job")
CheckApiJobStatus(t) == Invoke(t, "check_api_job_status")
GetTables(t) == Invoke(t, "get_tables")
CreateTable(t) == Invoke(t, "create_table")
DeleteTable(t) == Invoke(t, "delete_table")
UpdateTableMetadata(t) == Invoke(t, "update_table_metadata")

\* the transport answers thread t and its handler runs to its end
Respond(t) ==
    /\ mode \in {"client", "threads"}
    /\ t \in DOMAIN pc
    /\ pc[t] = "waiting"
    /\ \E r \in ResponsesOf(mode, call[t].op) :
          LET h == Handle(requests[t], call[t], r) IN
          /\ response' = [response EXCEPT ![t] = r]
          /\ pc' = [pc EXCEPT ![t] = h.pc]
          /\ requests' = [requests EXCEPT ![t] = h.requests]
          /\ outcome' = [outcome EXCEPT ![t] = h.outcome]
          /\ local' = TableAfter(local, call[t], h.outcome)
    /\ UNCHANGED <<mode, diffVars, parseVars, configVars, call>>

\* the caller of thread t diffs its table against the first table listed
DiffListed(t) ==
    /\ mode \in {"client", "threads"}
    /\ t \in DOMAIN pc
    /\ pc[t] = "done"
    /\ call[t].op = "get_tables"
    /\ outcome[t].raised = None
    /\ outcome[t].value # <<>>
    /\ result = Pending
    /\ result' = Table__sub__(local, outcome[t].value[1])
    /\ UNCHANGED <<mode, left, right, reverse, tresult, parseVars, clientVars>>

\* the caller of thread t goes on with what the invocation returned or raised
Finish(t) ==
    /\ mode \in {"client", "threads"}
    /\ t \in DOMAIN pc
    /\ pc[t] = "done"
    /\ pc' = [pc EXCEPT ![t] = "idle"]
    /\ call' = [call EXCEPT ![t] = Pending]
    /\ requests' = [requests EXCEPT ![t] = <<>>]
    /\ response' = [response EXCEPT ![t] = Pending]
    /\ outcome' = [outcome EXCEPT ![t] = Pending]
    /\ result' = IF call[t].op = "get_tables" THEN Pending ELSE result
    /\ UNCHANGED <<mode, left, right, reverse, tresult, parseVars, configVars, local>>

NextCalls ==
    \/ \E t \in ThreadIds : QueueJob(t)
    \/ \E t \in ThreadIds : GetJob(t)
    \/ \E t \in ThreadIds : CheckJobStatus(t)
    \/ \E t \in ThreadIds : GetApiJob(t)
    \/ \E t \in ThreadIds : CheckApiJobStatus(t)
    \/ \E t \in ThreadIds : GetTables(t)
    \/ \E t \in ThreadIds : CreateTable(t)
    \/ \E t \in ThreadIds : DeleteTable(t)
    \/ \E t \in ThreadIds : UpdateTableMetadata(t)
    \/ \E t \in ThreadIds : Respond(t)
    \/ \E t \in ThreadIds : DiffListed(t)
    \/ \E t \in ThreadIds : Finish(t)

\* one caller
InitClient == mode = "client" /\ InitCalls({1})

SpecClient == InitClient /\ [][NextCalls]_vars

\* two callers that share the Client and the Table
InitThreads == mode = "threads" /\ InitCalls({1, 2})

SpecThreads == InitThreads /\ [][NextCalls]_vars

-----------------------------------------------------------------------------
(* Properties of the table diff, under SpecTableDiff.                      *)

Diffed == mode = "table" /\ result # Pending

\* the names of the columns of a table
NamesOf(t) == {t.columns[i].name : i \in DOMAIN t.columns}

\* every column of s has a column of t of the same name that agrees with it
\* on all five fields
ColumnsWithin(s, t) ==
    \A i \in DOMAIN s.columns : \E j \in DOMAIN t.columns :
        /\ s.columns[i].name = t.columns[j].name
        /\ s.columns[i].type = t.columns[j].type
        /\ s.columns[i].description = t.columns[j].description
        /\ s.columns[i].primary = t.columns[j].primary
        /\ s.columns[i].length = t.columns[j].length

SameComparable(s, t) ==
    /\ UniqueNames(s.columns)
    /\ UniqueNames(t.columns)
    /\ s.name = t.name
    /\ s.schema = t.schema
    /\ s.description = t.description
    /\ ColumnsWithin(s, t)
    /\ ColumnsWithin(t, s)

\* C1: two tables with unique column names that agree on name, schema and
\* description and hold the same columns (same names, same-named columns equal
\* on every field the Column diff compares) have the empty diff, whatever the
\* order of their columns and whatever their id, schema_id, row_cnt and
\* native_types.
C1_EqualTablesEmptyDiff ==
    (Diffed /\ SameComparable(left, right)) => DOMAIN result = {}

\* C1 witness: an empty diff of two tables whose columns are listed in a
\* different order and whose id, row_cnt and native_types differ.
C1_Witness ==
    /\ Diffed
    /\ SameComparable(left, right)
    /\ Len(left.columns) >= 2
    /\ left.columns # right.columns
    /\ left.id # right.id
    /\ left.row_cnt # right.row_cnt
    /\ left.native_types # right.native_types
    /\ DOMAIN result = {}

\* C3: left - right and right - left report the same fields; a scalar field's
\* pair is reversed; under 'columns' both report the same column names.
C3_DiffSymmetric ==
    Diffed =>
        /\ DOMAIN result = DOMAIN reverse
        /\ \A f \in DOMAIN result \ {"columns"} :
               reverse[f] = <<result[f][2], result[f][1]>>
        /\ "columns" \in DOMAIN result =>
               DOMAIN result["columns"] = DOMAIN reverse["columns"]

\* C3 witness: a diff that reports a scalar field and, under columns, a column
\* of one side only next to a column that differs.
C3_Witness ==
    /\ Diffed
    /\ "name" \in DOMAIN result
    /\ "columns" \in DOMAIN result
    /\ \E n, m \in DOMAIN result["columns"] :
           /\ result["columns"][n].marker = "Left Only"
           /\ result["columns"][m].marker = ""

\* C4 as stated: with differing column-name sets, a name of the left table
\* only is marked "left only" and one of the right table only "right only".
C4_LowerCaseMarkers ==
    (Diffed /\ NamesOf(left) # NamesOf(right)) =>
        /\ "columns" \in DOMAIN result
        /\ \A n \in NamesOf(left) \ NamesOf(right) :
               /\ n \in DOMAIN result["columns"]
               /\ result["columns"][n].marker = "left only"
        /\ \A n \in NamesOf(right) \ NamesOf(left) :
               /\ n \in DOMAIN result["columns"]
               /\ result["columns"][n].marker = "right only"

\* C4, amended: with differing column-name sets the columns entry is present,
\* marks every name of the left table only 'Left Only' and every name of the
\* right table only 'Right Only', and gives a name of both tables no marker.
C4_OnlyMarkers ==
    (Diffed /\ NamesOf(left) # NamesOf(right)) =>
        /\ "columns" \in DOMAIN result
        /\ \A n \in NamesOf(left) \ NamesOf(right) :
               /\ n \in DOMAIN result["columns"]
               /\ result["columns"][n] = Marked("Left Only")
        /\ \A n \in NamesOf(right) \ NamesOf(left) :
               /\ n \in DOMAIN result["columns"]
               /\ result["columns"][n] = Marked("Right Only")
        /\ \A n \in NamesOf(left) \cap NamesOf(right) :
               n \in DOMAIN result["columns"] =>
                   result["columns"][n].marker = ""

\* C4 witness: one name on the left only, one on the right only, one on both
\* sides with a difference.
C4_Witness ==
    /\ Diffed
    /\ "columns" \in DOMAIN result
    /\ \E n \in NamesOf(left) \ NamesOf(right) :
           result["columns"][n].marker = "Left Only"
    /\ \E n \in NamesOf(right) \ NamesOf(left) :
           result["columns"][n].marker = "Right Only"

-----------------------------------------------------------------------------
(* Properties of the column diff, under SpecColumnDiff.                    *)

ColumnDiffed == mode = "column" /\ result # Pending /\ tresult # Pending

OnlyUncomparedDiffer ==
    /\ left.name = right.name
    /\ left.type = right.type
    /\ left.primary = right.primary
    /\ (left.description # right.description \/ left.length # right.length)

\* C2 as stated: two columns that agree on name, type and primary have the
\* empty diff, and so have the two tables that hold them.
C2_DescriptionLengthIgnored ==
    (ColumnDiffed /\ OnlyUncomparedDiffer) =>
        (DOMAIN result = {} /\ DOMAIN tresult = {})

\* the fields among description and length on which left and right differ
DifferingOf(fs) == {f \in fs : left[f] # right[f]}

\* C2, amended: description and length are compared like every other field.
\* Two columns that agree on name, type and primary and differ in description
\* and/or length have a diff that reports exactly the fields among description
\* and length on which they differ, each with the pair (left value, right
\* value); two tables that differ only in such a column report it under
\* columns with that diff.
C2_DescriptionLengthReported ==
    (ColumnDiffed /\ OnlyUncomparedDiffer) =>
        /\ DOMAIN result = DifferingOf({"description", "length"})
        /\ \A f \in DOMAIN result : result[f] = <<left[f], right[f]>>
        /\ DOMAIN tresult = {"columns"}
        /\ DOMAIN tresult["columns"] = {left.name}
        /\ tresult["columns"][left.name] = Differs(result)

\* C2 witness: two columns that differ in description and in length, diffed.
C2_Witness ==
    /\ ColumnDiffed
    /\ left.name = right.name
    /\ left.type = right.type
    /\ left.primary = right.primary
    /\ left.description # right.description
    /\ left.length # right.length
    /\ DOMAIN result = {"description", "length"}

-----------------------------------------------------------------------------
(* Properties of the parsing, under SpecParse.                             *)

Parsed == mode = "parse" /\ parsed # Pending

\* the value of the first entry of metadata that has the key and, when
\* storageOnly, the provider "storage"; None if there is none
FirstValue(metadata, key, storageOnly) ==
    LET Hit(i) == /\ metadata[i].key = key
                  /\ (storageOnly => metadata[i].provider = "storage")
    IN  IF \E i \in DOMAIN metadata : Hit(i)
        THEN metadata[CHOOSE i \in DOMAIN metadata :
                          Hit(i) /\ \A j \in 1..(i - 1) : ~Hit(j)].value
        ELSE None

\* C6: with a list of primary-key names, a non-empty metadata mapping yields
\* one Column per key in the mapping's order, with type and length the value
\* of the first storage entry of their key, description the value of the first
\* KBC.description entry of any provider, None where there is none; metadata
\* absent or empty and a non-empty plain list yield one Column per name, in
\* order, with type, length and description None; neither yields the empty
\* sequence; primary is membership of the name in the primary-key list.
C6_ColumnsParsed ==
    (Parsed /\ arg_primary # Nothing) =>
        /\ parsed.raised = None
        /\ IF Truthy(arg_metadata)
           THEN LET cm == arg_metadata[1] IN
                /\ Len(parsed.value) = Len(cm)
                /\ \A i \in DOMAIN cm :
                      /\ parsed.value[i].name = cm[i].name
                      /\ parsed.value[i].type =
                             FirstValue(cm[i].metadata, "KBC.datatype.basetype", TRUE)
                      /\ parsed.value[i].length =
                             FirstValue(cm[i].metadata, "KBC.datatype.length", TRUE)
                      /\ parsed.value[i].description =
                             FirstValue(cm[i].metadata, "KBC.description", FALSE)
                      /\ parsed.value[i].primary =
                             (cm[i].name \in Range(arg_primary[1]))
           ELSE IF Truthy(arg_columns)
           THEN /\ Len(parsed.value) = Len(arg_columns[1])
                /\ \A i \in DOMAIN arg_columns[1] :
                      parsed.value[i] =
                          Column(arg_columns[1][i], None, None,
                                 arg_columns[1][i] \in Range(arg_primary[1]), None)
           ELSE parsed.value = <<>>

\* C6 witness: a parsed primary-key column whose only basetype entry is of
\* the user provider, so its type is None, and whose description comes from
\* an entry of the user provider.
C6_Witness ==
    /\ Parsed
    /\ parsed.raised = None
    /\ Truthy(arg_metadata)
    /\ arg_metadata[1][1].metadata =
           <<Meta("KBC.datatype.basetype", "NUMERIC", "user"),
             Meta("KBC.description", "d1", "user")>>
    /\ parsed.value[1].type = None
    /\ parsed.value[1].description = "d1"
    /\ parsed.value[1].primary

-----------------------------------------------------------------------------
(* Properties of the client operations, under SpecClient and SpecThreads.  *)

Sent(t) == mode \in {"client", "threads"} /\ pc[t] \in {"waiting", "done"}
Done(t) == mode \in {"client", "threads"} /\ pc[t] = "done"

\* the expected success set of each operation
Success(op, status_code) ==
    CASE op = "get_tables" -> status_code = 200
      [] op = "create_table" -> status_code = 202
      [] op = "delete_table" -> status_code = 204
      [] op = "update_table_metadata" -> status_code = 201
      [] OTHER -> status_code < 400

\* the request failure carries the response text, and the submitted body for
\* create_table and update_table_metadata
IsRequestFailure(t) ==
    /\ outcome[t].raised = "HTTPError"
    /\ outcome[t].value.err = response[t].text
    /\ outcome[t].value.body =
           IF call[t].op \in {"create_table", "update_table_metadata"}
           THEN requests[t][1].json
           ELSE Nothing

\* C5 as stated: an invocation returns exactly when the status is in its
\* operation's success set, and raises the request failure otherwise.
C5_ReturnsIffSuccessStatus ==
    \A t \in DOMAIN pc : Done(t) =>
        IF Success(call[t].op, response[t].status_code)
        THEN outcome[t].raised = None
        ELSE IsRequestFailure(t)

\* a listed table that Table.from_keboola can read
ReadableTable(j) ==
    /\ {"id", "displayName", "bucket"} \subseteq DOMAIN j
    /\ {"id", "displayName"} \subseteq DOMAIN j.bucket
    /\ \/ "primaryKey" \in DOMAIN j
       \/ /\ ("columnMetadata" \in DOMAIN j => j.columnMetadata = <<>>)
          /\ ("columns" \in DOMAIN j => j.columns = <<>>)

\* the response body has the shape the operation reads
Readable(op, r) ==
    CASE op \in {"queue_job", "create_table"} ->
            r.json # Nothing /\ "id" \in DOMAIN r.json[1]
      [] op \in {"check_job_status", "check_api_job_status"} ->
            r.json # Nothing /\ "status" \in DOMAIN r.json[1]
      [] op \in {"get_job", "get_api_job", "update_table_metadata"} ->
            r.json # Nothing
      [] op = "get_tables" ->
            r.json # Nothing /\ \A i \in DOMAIN r.json[1] : ReadableTable(r.json[1][i])
      [] op = "delete_table" -> TRUE

\* C5, amended: an invocation returns exactly when the status is in its
\* operation's success set and the body has the shape the operation reads;
\* with a success status and another body it fails with the decoding or lookup
\* error of that read; with a status outside the success set it raises the
\* request failure, which carries the response text and, for create_table and
\* update_table_metadata, the submitted body.
C5_StatusAndShapeDecide ==
    \A t \in DOMAIN pc : Done(t) =>
        IF ~Success(call[t].op, response[t].status_code)
        THEN IsRequestFailure(t)
        ELSE IF Readable(call[t].op, response[t])
        THEN outcome[t].raised = None
        ELSE outcome[t].raised \in {"JSONDecodeError", "KeyError", "TypeError"}

\* C5 witness: check_job_status answered 404 "not found" has raised the
\* request failure with that text.
C5_Witness ==
    \E t \in DOMAIN pc :
        /\ Done(t)
        /\ call[t].op = "check_job_status"
        /\ response[t].status_code = 404
        /\ response[t].text = "not found"
        /\ outcome[t].raised = "HTTPError"
        /\ outcome[t].value.err = "not found"

\* the base URL without its trailing slashes
Stripped(url) ==
    CHOOSE s \in {SubSeq(url, 1, k) : k \in 0..Len(url)} :
        /\ (s # <<>> => s[Len(s)] # "/")
        /\ \A i \in (Len(s) + 1)..Len(url) : url[i] = "/"

\* {queue}: the base URL with connection replaced by queue
QueueRoot == [i \in DOMAIN Stripped(base_url) |->
                 IF Stripped(base_url)[i] = "connection" THEN "queue"
                 ELSE Stripped(base_url)[i]]

\* {storage}: the base URL followed by /v2/storage
StorageRoot == Stripped(base_url) \o <<"/", "v2", "/", "storage">>

\* the method and URL of the wire-endpoint table for a call; force is what
\* follows the table id in the path of delete_table
Endpoint(c, force) ==
    CASE c.op = "queue_job" -> <<"POST", QueueRoot \o <<"/", "jobs">>>>
      [] c.op \in {"get_job", "check_job_status"} ->
            <<"GET", QueueRoot \o <<"/", "jobs", "/", c.job_id[1]>>>>
      [] c.op \in {"get_api_job", "check_api_job_status"} ->
            <<"GET", StorageRoot \o <<"/", "jobs", "/", c.job_id[1]>>>>
      [] c.op = "get_tables" ->
            IF c.bucket \in {Nothing, Some("")}
            THEN <<"GET", StorageRoot \o <<"/", "tables", Include>>>>
            ELSE <<"GET", StorageRoot \o <<"/", "buckets", "/", c.bucket[1], "/",
                                             "tables", Include>>>>
      [] c.op = "create_table" ->
            <<"POST", StorageRoot \o <<"/", "buckets", "/",
                                        Format(c.table[1].schema_id), "/",
                                        "tables-definition">>>>
      [] c.op = "delete_table" ->
            <<"DELETE", StorageRoot \o <<"/", "tables", "/", c.table_id[1]>> \o force>>
      [] c.op = "update_table_metadata" ->
            <<"POST", StorageRoot \o <<"/", "tables", "/", Format(c.table[1].id), "/",
                                        "metadata">>>>

\* the request of thread t goes to the endpoint, the roots end in no slash,
\* and sub-clients built directly from the base URL send the same request
SentTo(t, force) ==
    /\ requests[t][1].method = Endpoint(call[t], force)[1]
    /\ requests[t][1].url = Endpoint(call[t], force)[2]
    /\ QueueRoot # <<>> /\ QueueRoot[Len(QueueRoot)] # "/"
    /\ StorageRoot[Len(Stripped(base_url)) + 1] = "/"
    /\ (Stripped(base_url) # <<>> => Stripped(base_url)[Len(Stripped(base_url))] # "/")
    /\ requests[t][1] =
           RequestOf([jobs |-> JobsClient__init__(base_url, token),
                      tables |-> TablesClient__init__(base_url, token)], call[t])

\* C7 as stated: every request goes to the method and path of the
\* wire-endpoint table, delete_table to {storage}/tables/{id}?force=true.
C7_WireEndpoints ==
    \A t \in DOMAIN pc : Sent(t) => SentTo(t, <<"?force=true">>)

\* C7, amended: every request goes to the method and path of the
\* wire-endpoint table, except that delete_table goes to
\* {storage}/tables/{id}/?force=true, with a slash before the query, and that
\* get_tables uses the bucket path for a non-empty bucket only.
C7_WireEndpointsSlashedDelete ==
    \A t \in DOMAIN pc : Sent(t) => SentTo(t, <<"/", "?force=true">>)

\* C7 witness: delete_table sent from a Client built from a base URL that
\* ends in a slash and holds the word connection.
C7_Witness ==
    \E t \in DOMAIN pc :
        /\ Sent(t)
        /\ call[t].op = "delete_table"
        /\ base_url[Len(base_url)] = "/"
        /\ \E i \in DOMAIN base_url : base_url[i] = "connection"
        /\ requests[t][1].url = StorageRoot \o <<"/", "tables", "/", "in.b.t", "/", "?force=true">>

\* C8: the body of queue_job holds component, config and mode = "run";
\* variableValuesData.values exactly when variable_values is non-empty;
\* branchId exactly when a branch_id was provided; no other key; and on a
\* status below 400 the call returns the id of the response body.
C8_RunRequestBody ==
    \A t \in DOMAIN pc : (Sent(t) /\ call[t].op = "queue_job") =>
        LET body == requests[t][1].json[1]
            c == call[t]
            vv == c.variable_values # Nothing /\ DOMAIN c.variable_values[1] # {}
            br == c.branch_id # Nothing
        IN  /\ DOMAIN body = {"component", "config", "mode"}
                             \cup (IF vv THEN {"variableValuesData"} ELSE {})
                             \cup (IF br THEN {"branchId"} ELSE {})
            /\ body["component"] = c.component_id[1]
            /\ body["config"] = c.configuration_id[1]
            /\ body["mode"] = "run"
            /\ vv => body["variableValuesData"] = [values |-> c.variable_values[1]]
            /\ br => body["branchId"] = c.branch_id[1]
            /\ (/\ pc[t] = "done"
                /\ response[t].status_code < 400
                /\ response[t].json # Nothing
                /\ "id" \in DOMAIN response[t].json[1])
               => outcome[t] = Returned(response[t].json[1]["id"])

\* C9: every invocation issues exactly one transport request and then
\* terminates: while it waits and once it is done it has sent one request, it
\* is done as soon as the transport has answered, whatever the status, and
\* check_job_status / check_api_job_status send the request of get_job /
\* get_api_job and return the status field of the response.
C9_OneRequestNoRetry ==
    \A t \in DOMAIN pc :
        /\ mode \in {"client", "threads"}
        /\ pc[t] = "idle" => requests[t] = <<>>
        /\ pc[t] \in {"waiting", "done"} => Len(requests[t]) = 1
        /\ pc[t] = "waiting" => response[t] = Pending /\ outcome[t] = Pending
        /\ pc[t] = "done" => response[t] # Pending /\ outcome[t] # Pending
        /\ (Sent(t) /\ call[t].op = "check_job_status") =>
               /\ requests[t][1].method = "GET"
               /\ requests[t][1].url = client.jobs.queue_url \o <<"/", "jobs", "/", call[t].job_id[1]>>
        /\ (Sent(t) /\ call[t].op = "check_api_job_status") =>
               /\ requests[t][1].method = "GET"
               /\ requests[t][1].url = client.jobs.storage_url \o <<"/", "jobs", "/", call[t].job_id[1]>>
        /\ (/\ Done(t)
            /\ call[t].op \in {"check_job_status", "check_api_job_status"}
            /\ outcome[t].raised = None)
           => outcome[t].value = response[t].json[1]["status"]

\* C9 witness: check_job_status answered 500 has raised after one request.
C9_Witness ==
    \E t \in DOMAIN pc :
        /\ Done(t)
        /\ call[t].op = "check_job_status"
        /\ response[t].status_code = 500
        /\ outcome[t].raised = "HTTPError"
        /\ Len(requests[t]) = 1

\* C10: no step of any invocation, of either thread, changes the base URL,
\* the token, the Client with its sub-clients' URLs, tokens and headers, or
\* the caller's Table; a diff changes neither the Table nor the listed table.
C10_ConfigurationAndTablesUnchanged ==
    [][/\ base_url' = base_url
       /\ token' = token
       /\ client' = client
       /\ local' = local
       /\ (result' # result /\ result' # Pending) => outcome' = outcome]_vars

\* C10 witness: create_table has returned the remote id while the local
\* table still has no id, and the other thread's invocation is in flight.
C10_Witness ==
    \E t, u \in DOMAIN pc :
        /\ t # u
        /\ Done(t)
        /\ call[t].op = "create_table"
        /\ outcome[t] = Returned("42")
        /\ local.id = None
        /\ pc[u] = "waiting"
        /\ client = Client__init__(base_url, token)

====
